---- MODULE Spec2Model ----
(***************************************************************************)
(* Model of poolheatmetrics.py: the Hue bridge discovery (HueController,   *)
(* Meter.find_hue), the bridge binding (auth_hue, find_pump, is_running),  *)
(* the AquaTemp cloud client (aquatemp_login, aquatemp_get_device,         *)
(* aquatemp_get_data) and the poll loop (Meter.refresh_all_meters, serve). *)
(***************************************************************************)
EXTENDS Integers, Sequences, FiniteSets, TLC

(***************************************************************************)
(* Program constants and model bounds                                      *)
(***************************************************************************)
PUMPNAME == "Poolpump"
MAX_WAIT == 150

\* poll cycles a behaviour runs (serve loops forever)
MaxCycles == 2
\* items in the objectResult list of a getDataByCode response (SpecData)
MaxItems == 3
\* one-second sleeps of find_hue that are followed beyond MAX_WAIT
ExtraWait == 1
\* lights in the bridge state handed to find_pump in SpecPump
MaxLights == 3

(***************************************************************************)
(* Python values                                                           *)
(***************************************************************************)
\* a float (or the int -1 of the defaults) and a bool; bool is a number in
\* Python (True == 1), the type tag is what tells them apart
Num(n) == [ty |-> "num", n |-> n]
PyBool(b) == [ty |-> "bool", n |-> IF b THEN 1 ELSE 0]
Unbound == [ty |-> "unbound", n |-> 0]

\* truthiness of a number: bool(x)
Truthy(v) == v.n # 0

\* bytes(s, "ascii") / .decode("ascii") of the dbm values
Bytes(s) == <<"b", s>>
Decode(b) == b[2]

\* json.dumps((token, id)) and json.loads of it: a JSON array of two strings
json_dumps(pair) == <<"[", pair[1], ",", pair[2], "]">>
json_loads(s) == <<s[2], s[4]>>

\* dbm stores str values encoded; db[key] always reads bytes
DbSet(d, k, v) == [x \in (DOMAIN d) \cup {k} |-> IF x = k THEN v ELSE d[x]]

KEY_HUE == "hue_id"
KEY_LOGIN == "aquatemptokenandid"
KEY_DEVICE == "aquatempdevice"

(***************************************************************************)
(* The environment: what the network can answer                            *)
(***************************************************************************)
\* mDNS announcements: (host, port)
Announcements == {[host |-> "10.0.0.2", port |-> 443], [host |-> "10.0.0.3", port |-> 80]}

\* pairs the login endpoint hands out (x-token, userId)
ServerPairs == {<<"T1", "U1">>, <<"T2", "U2">>}
UserIds == {"U0", "U1", "U2"}

\* an HTTP exchange either raises in requests (connection error) or answers
LoginResponses ==
    {[conn |-> FALSE, ok |-> TRUE, error_code |-> 0, objectResult |-> p] : p \in ServerPairs}
    \cup {[conn |-> FALSE, ok |-> FALSE, error_code |-> 0, objectResult |-> <<"", "">>],
          [conn |-> FALSE, ok |-> TRUE, error_code |-> 1, objectResult |-> <<"", "">>],
          [conn |-> TRUE, ok |-> FALSE, error_code |-> 0, objectResult |-> <<"", "">>]}

DeviceResponses ==
    {[conn |-> FALSE, ok |-> TRUE, error_code |-> 0, objectResult |-> <<"D1", "D2">>],
     [conn |-> FALSE, ok |-> FALSE, error_code |-> 0, objectResult |-> <<>>],
     [conn |-> FALSE, ok |-> TRUE, error_code |-> 1, objectResult |-> <<>>],
     [conn |-> TRUE, ok |-> FALSE, error_code |-> 0, objectResult |-> <<>>]}

KnownCodes == {"R02", "T02", "T03", "Power"}
Codes == KnownCodes \cup {"Set_Temp"}
RawValues == {"0", "21"}
Items == [code : Codes, value : RawValues]

SeqUpTo(S, n) == UNION {[1..k -> S] : k \in 0..n}

DataResponsesOf(n) ==
    {[conn |-> FALSE, ok |-> TRUE, error_code |-> 0, objectResult |-> its] : its \in SeqUpTo(Items, n)}
    \cup {[conn |-> FALSE, ok |-> FALSE, error_code |-> 0, objectResult |-> <<>>],
          [conn |-> FALSE, ok |-> TRUE, error_code |-> 1, objectResult |-> <<>>],
          [conn |-> TRUE, ok |-> FALSE, error_code |-> 0, objectResult |-> <<>>]}

\* the getDataByCode answers the poll loop is run against: nothing, one
\* code, all four codes, and a code that was not asked for
DataResponses ==
    {[conn |-> FALSE, ok |-> TRUE, error_code |-> 0, objectResult |-> its] : its \in
        {<<>>,
         <<[code |-> "T02", value |-> "21"]>>,
         <<[code |-> "R02", value |-> "21"], [code |-> "T02", value |-> "0"],
           [code |-> "T03", value |-> "21"], [code |-> "Power", value |-> "21"]>>,
         <<[code |-> "Power", value |-> "0"], [code |-> "Set_Temp", value |-> "21"]>>}}
    \cup {[conn |-> FALSE, ok |-> FALSE, error_code |-> 0, objectResult |-> <<>>],
          [conn |-> FALSE, ok |-> TRUE, error_code |-> 1, objectResult |-> <<>>],
          [conn |-> TRUE, ok |-> FALSE, error_code |-> 0, objectResult |-> <<>>]}

\* answers of the bridge to POST /api
HueRegResponses ==
    {[status_code |-> 200, json |-> <<[success |-> TRUE, username |-> "hueA"]>>],
     [status_code |-> 200, json |-> <<[success |-> FALSE, username |-> ""],
                                      [success |-> TRUE, username |-> "hueA"]>>],
     [status_code |-> 200, json |-> <<[success |-> FALSE, username |-> ""]>>],
     [status_code |-> 403, json |-> <<>>]}

\* answers of the bridge to GET /api/<hue_id>: the lights, in document order
HueStateResponses ==
    {[status_code |-> 200, lights |-> <<[id |-> "1", name |-> "Other"], [id |-> "2", name |-> PUMPNAME]>>],
     [status_code |-> 200, lights |-> <<[id |-> "2", name |-> PUMPNAME], [id |-> "4", name |-> PUMPNAME]>>],
     [status_code |-> 200, lights |-> <<[id |-> "1", name |-> "Other"]>>],
     [status_code |-> 200, lights |-> <<>>],
     [status_code |-> 500, lights |-> <<>>]}

\* the bridge states of up to n lights: "lights" is a JSON object, so no
\* identifier occurs twice
LightIds == {"1", "2", "3", "4"}
LightNames == {PUMPNAME, "Other", "poolpump"}
HueStateResponsesOf(n) ==
    {[status_code |-> 200, lights |-> ls] :
        ls \in {l \in SeqUpTo([id : LightIds, name : LightNames], n) :
                   \A i, j \in 1..Len(l) : l[i].id = l[j].id => i = j}}
    \cup {[status_code |-> 500, lights |-> <<>>]}

\* answers of the bridge to GET /api/<hue_id>/lights/<pump>
LightResponses ==
    {[status_code |-> 200, on |-> TRUE], [status_code |-> 200, on |-> FALSE],
     [status_code |-> 500, on |-> FALSE]}

(***************************************************************************)
(* HueController                                                           *)
(***************************************************************************)
\* _url = None; a URL is the pair (proto, host) of f"{proto}://{host}"
NoUrl == <<>>

\* add_service: the URL built from the announced address and port
service_url(info) == <<IF info.port = 443 THEN "https" ELSE "http", info.host>>

(***************************************************************************)
(* Meter.auth_hue, Meter.find_pump, Meter.is_running                       *)
(***************************************************************************)
RECURSIVE store_success(_, _)
\* for p in r.json(): if "success" in p: self.db["hue_id"] = bytes(...)
store_success(d, entries) ==
    IF entries = <<>> THEN d
    ELSE store_success(IF Head(entries).success
                          THEN DbSet(d, KEY_HUE, Bytes(Head(entries).username))
                          ELSE d,
                       Tail(entries))

\* auth_hue with the test of line 121 lost: it registers on every start
auth_hue_always_registers(d, r) ==
    LET d1 == IF r.status_code = 200 THEN store_success(d, r.json) ELSE d
    IN  IF KEY_HUE \notin DOMAIN d1
           THEN [raised |-> "SystemError", db |-> d1, posts |-> 1, hue_id |-> ""]
           ELSE [raised |-> "none", db |-> d1, posts |-> 1, hue_id |-> Decode(d1[KEY_HUE])]

\* auth_hue on store d with r the bridge's answer to the registration POST
\* (r is read only when the POST is made)
auth_hue(d, r) ==
    LET posted == KEY_HUE \notin DOMAIN d
        d1 == IF posted /\ r.status_code = 200 THEN store_success(d, r.json) ELSE d
    IN  IF KEY_HUE \notin DOMAIN d1
           THEN [raised |-> "SystemError", db |-> d1, posts |-> IF posted THEN 1 ELSE 0,
                 hue_id |-> ""]
           ELSE [raised |-> "none", db |-> d1, posts |-> IF posted THEN 1 ELSE 0,
                 hue_id |-> Decode(d1[KEY_HUE])]

\* first_named without the test of the name: the first light is taken
first_named_any(lights, name) ==
    IF lights = <<>> THEN "" ELSE Head(lights).id

RECURSIVE first_named(_, _)
\* for p in hue["lights"]: if ...["name"] == PUMPNAME: self.pump = p; return
first_named(lights, name) ==
    IF lights = <<>> THEN ""
    ELSE IF Head(lights).name = name THEN Head(lights).id
    ELSE first_named(Tail(lights), name)

\* find_pump with the raise of line 148 lost: the loop falls through
find_pump_falls_through(r) ==
    IF r.status_code # 200 THEN [raised |-> "SystemError", pump |-> ""]
    ELSE [raised |-> "none", pump |-> first_named(r.lights, PUMPNAME)]

find_pump(r) ==
    IF r.status_code # 200 THEN [raised |-> "SystemError", pump |-> ""]
    ELSE IF first_named(r.lights, PUMPNAME) = "" THEN [raised |-> "SystemError", pump |-> ""]
    ELSE [raised |-> "none", pump |-> first_named(r.lights, PUMPNAME)]

is_running(r) ==
    IF r.status_code # 200 THEN [raised |-> "SystemError", ret |-> FALSE]
    ELSE [raised |-> "none", ret |-> r.on]

(***************************************************************************)
(* aquatemp_login, aquatemp_get_device, aquatemp_get_data                  *)
(***************************************************************************)
NoPair == <<"", "">>

\* aquatemp_login with the cache test of line 196 lost: it always logs in
aquatemp_login_no_cache(d, force, r) ==
    IF r.conn
       THEN [raised |-> "ConnectionError", ret |-> NoPair, db |-> d, requests |-> 1]
    ELSE IF (~r.ok) \/ r.error_code # 0
       THEN [raised |-> "SystemError", ret |-> NoPair, db |-> d, requests |-> 1]
    ELSE [raised |-> "none", ret |-> <<r.objectResult[1], r.objectResult[2]>>,
          db |-> DbSet(d, KEY_LOGIN, Bytes(json_dumps(<<r.objectResult[1], r.objectResult[2]>>))),
          requests |-> 1]

\* aquatemp_login that drops the stored record when the login is refused
aquatemp_login_drops_on_failure(d, force, r) ==
    IF ~force /\ KEY_LOGIN \in DOMAIN d
       THEN [raised |-> "none", ret |-> json_loads(Decode(d[KEY_LOGIN])), db |-> d,
             requests |-> 0]
    ELSE IF r.conn
       THEN [raised |-> "ConnectionError", ret |-> NoPair, db |-> d, requests |-> 1]
    ELSE IF (~r.ok) \/ r.error_code # 0
       THEN [raised |-> "SystemError", ret |-> NoPair,
             db |-> [k \in (DOMAIN d) \ {KEY_LOGIN} |-> d[k]], requests |-> 1]
    ELSE [raised |-> "none", ret |-> <<r.objectResult[1], r.objectResult[2]>>,
          db |-> DbSet(d, KEY_LOGIN, Bytes(json_dumps(<<r.objectResult[1], r.objectResult[2]>>))),
          requests |-> 1]

\* aquatemp_login that writes the record only when the store has none
aquatemp_login_keeps_record(d, force, r) ==
    IF ~force /\ KEY_LOGIN \in DOMAIN d
       THEN [raised |-> "none", ret |-> json_loads(Decode(d[KEY_LOGIN])), db |-> d,
             requests |-> 0]
    ELSE IF r.conn
       THEN [raised |-> "ConnectionError", ret |-> NoPair, db |-> d, requests |-> 1]
    ELSE IF (~r.ok) \/ r.error_code # 0
       THEN [raised |-> "SystemError", ret |-> NoPair, db |-> d, requests |-> 1]
    ELSE [raised |-> "none", ret |-> <<r.objectResult[1], r.objectResult[2]>>,
          db |-> IF KEY_LOGIN \in DOMAIN d THEN d
                 ELSE DbSet(d, KEY_LOGIN,
                            Bytes(json_dumps(<<r.objectResult[1], r.objectResult[2]>>))),
          requests |-> 1]

\* aquatemp_login that forgets the device when the credentials are replaced
aquatemp_login_invalidates_device(d, force, r) ==
    IF ~force /\ KEY_LOGIN \in DOMAIN d
       THEN [raised |-> "none", ret |-> json_loads(Decode(d[KEY_LOGIN])), db |-> d,
             requests |-> 0]
    ELSE IF r.conn
       THEN [raised |-> "ConnectionError", ret |-> NoPair, db |-> d, requests |-> 1]
    ELSE IF (~r.ok) \/ r.error_code # 0
       THEN [raised |-> "SystemError", ret |-> NoPair, db |-> d, requests |-> 1]
    ELSE [raised |-> "none", ret |-> <<r.objectResult[1], r.objectResult[2]>>,
          db |-> LET d1 == DbSet(d, KEY_LOGIN,
                                 Bytes(json_dumps(<<r.objectResult[1], r.objectResult[2]>>)))
                 IN  [k \in (DOMAIN d1) \ {KEY_DEVICE} |-> d1[k]],
          requests |-> 1]

\* aquatemp_login that replaces the token of a stored record and keeps its id
aquatemp_login_keeps_old_id(d, force, r) ==
    IF ~force /\ KEY_LOGIN \in DOMAIN d
       THEN [raised |-> "none", ret |-> json_loads(Decode(d[KEY_LOGIN])), db |-> d,
             requests |-> 0]
    ELSE IF r.conn
       THEN [raised |-> "ConnectionError", ret |-> NoPair, db |-> d, requests |-> 1]
    ELSE IF (~r.ok) \/ r.error_code # 0
       THEN [raised |-> "SystemError", ret |-> NoPair, db |-> d, requests |-> 1]
    ELSE [raised |-> "none", ret |-> <<r.objectResult[1], r.objectResult[2]>>,
          db |-> DbSet(d, KEY_LOGIN,
                       Bytes(json_dumps(<<r.objectResult[1],
                                          IF KEY_LOGIN \in DOMAIN d
                                             THEN json_loads(Decode(d[KEY_LOGIN]))[2]
                                             ELSE r.objectResult[2]>>))),
          requests |-> 1]

\* aquatemp_login(db, at, force) with r the login endpoint's answer
\* (r is read only when the request is made)
aquatemp_login(d, force, r) ==
    IF ~force /\ KEY_LOGIN \in DOMAIN d
       THEN [raised |-> "none", ret |-> json_loads(Decode(d[KEY_LOGIN])), db |-> d,
             requests |-> 0]
    ELSE IF r.conn
       THEN [raised |-> "ConnectionError", ret |-> NoPair, db |-> d, requests |-> 1]
    ELSE IF (~r.ok) \/ r.error_code # 0
       THEN [raised |-> "SystemError", ret |-> NoPair, db |-> d, requests |-> 1]
    ELSE [raised |-> "none", ret |-> <<r.objectResult[1], r.objectResult[2]>>,
          db |-> DbSet(d, KEY_LOGIN, Bytes(json_dumps(<<r.objectResult[1], r.objectResult[2]>>))),
          requests |-> 1]

\* aquatemp_get_device with the cache test of line 223 lost
aquatemp_get_device_no_cache(d, tok, uid, r) ==
    IF r.conn
       THEN [raised |-> "ConnectionError", ret |-> "", db |-> d, requests |-> 1]
    ELSE IF (~r.ok) \/ r.error_code # 0
       THEN [raised |-> "SystemError", ret |-> "", db |-> d, requests |-> 1]
    ELSE [raised |-> "none", ret |-> r.objectResult[1],
          db |-> DbSet(d, KEY_DEVICE, Bytes(r.objectResult[1])), requests |-> 1]

\* aquatemp_get_device(db, token, id) with r the device-list endpoint's answer
aquatemp_get_device(d, tok, uid, r) ==
    IF KEY_DEVICE \in DOMAIN d
       THEN [raised |-> "none", ret |-> Decode(d[KEY_DEVICE]), db |-> d, requests |-> 0]
    ELSE IF r.conn
       THEN [raised |-> "ConnectionError", ret |-> "", db |-> d, requests |-> 1]
    ELSE IF (~r.ok) \/ r.error_code # 0
       THEN [raised |-> "SystemError", ret |-> "", db |-> d, requests |-> 1]
    ELSE [raised |-> "none", ret |-> r.objectResult[1],
          db |-> DbSet(d, KEY_DEVICE, Bytes(r.objectResult[1])), requests |-> 1]

\* float(p["value"]) of the decimal strings the endpoint sends
Float(s) == CASE s = "0" -> 0 [] s = "21" -> 21

ATDataDefault ==
    [target |-> Num(-1), incoming |-> Num(-1), outgoing |-> Num(-1), on |-> PyBool(FALSE)]
ATDataUnbound ==
    [target |-> Unbound, incoming |-> Unbound, outgoing |-> Unbound, on |-> Unbound]

\* item_key with the cases of T02 and T03 exchanged
item_key_swapped(code) ==
    CASE code = "R02" -> "target"
      [] code = "T02" -> "outgoing"
      [] code = "T03" -> "incoming"
      [] code = "Power" -> "on"
      [] OTHER -> "on"

\* the key an item is stored under: key = "on", then the match statement
item_key(code) ==
    CASE code = "R02" -> "target"
      [] code = "T02" -> "incoming"
      [] code = "T03" -> "outgoing"
      [] code = "Power" -> "on"
      [] OTHER -> "on"

\* the value stored: float(p["value"]), and for Power bool(float(p["value"]))
item_value(p) ==
    IF p.code = "Power" THEN PyBool(Truthy(Num(Float(p.value)))) ELSE Num(Float(p.value))

RECURSIVE parse_items(_, _)
\* for p in r.json()["objectResult"]: ...; d[key] = value
parse_items(d, items) ==
    IF items = <<>> THEN d
    ELSE parse_items([d EXCEPT ![item_key(Head(items).code)] = item_value(Head(items))],
                     Tail(items))

\* aquatemp_get_data(db, token, id); rdev and rdata are the answers of the
\* device-list and getDataByCode endpoints (each read only if requested)
aquatemp_get_data(d, tok, uid, rdev, rdata) ==
    LET dev == aquatemp_get_device(d, tok, uid, rdev)
    IN  IF dev.raised # "none"
           THEN [raised |-> dev.raised, ret |-> ATDataUnbound, db |-> dev.db,
                 device |-> "", device_requests |-> dev.requests, data_requests |-> 0]
        ELSE IF rdata.conn
           THEN [raised |-> "ConnectionError", ret |-> ATDataUnbound, db |-> dev.db,
                 device |-> dev.ret, device_requests |-> dev.requests, data_requests |-> 1]
        ELSE IF (~rdata.ok) \/ rdata.error_code # 0
           THEN [raised |-> "SystemError", ret |-> ATDataUnbound, db |-> dev.db,
                 device |-> dev.ret, device_requests |-> dev.requests, data_requests |-> 1]
        ELSE [raised |-> "none", ret |-> parse_items(ATDataDefault, rdata.objectResult),
              db |-> dev.db, device |-> dev.ret, device_requests |-> dev.requests,
              data_requests |-> 1]

(***************************************************************************)
(* prometheus_client.Gauge                                                 *)
(***************************************************************************)
GaugeNames == {"incoming", "outgoing", "target", "on", "pumprunning"}
Labels == UserIds \cup {PUMPNAME}
\* a gauge before any child exists exposes no sample
NoSample == <<>>
NoMetrics == [g \in GaugeNames |-> [l \in Labels |-> NoSample]]

\* .labels(...): the child is created at 0.0 the first time it is asked for
gauge_labels(m, g, l) ==
    IF m[g][l] = NoSample THEN [m EXCEPT ![g][l] = <<0>>] ELSE m
\* .labels(...).set(v): float(v)
gauge_set(m, g, l, v) == [gauge_labels(m, g, l) EXCEPT ![g][l] = <<v.n>>]

\* t.keys(): the insertion order of ATData(target=, incoming=, outgoing=, on=)
ATKeys == <<"target", "incoming", "outgoing", "on">>

(***************************************************************************)
(* State                                                                   *)
(***************************************************************************)
VARIABLES
    pc,            \* position of the main thread in serve / Meter
    err,           \* the exception that ended the process ("" while it runs)
    db,            \* poolheatmetrics.db: key -> bytes
    listener_url,  \* HueController._url
    zc_open,       \* the zeroconf browser delivers callbacks
    count,         \* find_hue: count
    url,           \* Meter.url
    hue_id,        \* Meter.hue_id
    pump,          \* Meter.pump
    metrics,       \* the samples the five gauges expose
    token,         \* refresh_all_meters: token
    id,            \* refresh_all_meters: id
    t,             \* refresh_all_meters: t
    pub,           \* refresh_all_meters: position of the loop over t.keys()
    cycle,         \* calls of refresh_all_meters made by serve
    \* history variables, read by the properties only
    sleeps,        \* time.sleep(1) calls made by the running find_hue
    announced,     \* a listener callback has been delivered
    calls,         \* how often find_hue, auth_hue, find_pump were entered
    lastAuth,      \* the last auth_hue call: store before, requests, outcome
    lastLogin,     \* the last aquatemp_login call of the running cycle
    lastForced,    \* the pair written by the last successful forced login
    lastData,      \* the last aquatemp_get_data call of the running cycle
    cyc,           \* this cycle: forced logins, fetch attempts, failures
    lastPump,      \* the last find_pump call: the lights answered, outcome
    device_lists,  \* successful requests to the device-list endpoint
    first_url,     \* the URL of the first add/update callback of the listener
    left_found,    \* find_hue left its loop on a non-empty listener.url
    scraped,       \* the last answer of the metrics server to a scrape
    published      \* the samples exposed when the last complete cycle returned

vars == <<pc, err, db, listener_url, zc_open, count, url, hue_id, pump, metrics,
          token, id, t, pub, cycle, sleeps, announced, calls, lastAuth, lastLogin,
          lastForced, lastData, cyc, published, lastPump, device_lists, first_url,
          left_found, scraped>>

meterVars == <<url, hue_id, pump>>
pollVars == <<token, id, t, pub, cycle>>
listenerVars == <<listener_url, zc_open, count>>
histVars == <<sleeps, announced, calls, lastAuth, lastLogin, lastForced, lastData, cyc, published,
             lastPump, device_lists, first_url, left_found, scraped>>

NoAuth == [called |-> FALSE, pre |-> <<>>, post |-> <<>>, posts |-> 0, raised |-> "none",
           hue_id |-> "", granted |-> ""]
NoResponse == [conn |-> FALSE, ok |-> FALSE, error_code |-> 0, objectResult |-> NoPair]
NoLogin == [called |-> FALSE, force |-> FALSE, pre |-> <<>>, post |-> <<>>, requests |-> 0,
            raised |-> "none", ret |-> NoPair, resp |-> NoResponse]
NoDeviceResponse == [conn |-> FALSE, ok |-> FALSE, error_code |-> 0, objectResult |-> <<>>]
NoData == [called |-> FALSE, items |-> <<>>, raised |-> "none", ret |-> ATDataUnbound,
           pre |-> <<>>, post |-> <<>>, token |-> "", device |-> "",
           device_requests |-> 0, data_requests |-> 0, device_resp |-> NoDeviceResponse]
NoPump == [called |-> FALSE, status_code |-> 0, lights |-> <<>>, raised |-> "none"]
NoScrape == [called |-> FALSE, samples |-> NoMetrics, before |-> NoMetrics, cycle |-> 0]
NoCyc == [forced |-> 0, logins |-> 0, attempts |-> 0, first_failed |-> FALSE,
          second_failed |-> FALSE]

\* the stores a previous run of the program can have left behind
InitialStores ==
    {<<>>,
     [k \in {KEY_HUE} |-> Bytes("hue0")],
     [k \in {KEY_HUE, KEY_LOGIN} |->
         IF k = KEY_HUE THEN Bytes("hue0") ELSE Bytes(json_dumps(<<"T0", "U0">>))],
     [k \in {KEY_HUE, KEY_LOGIN, KEY_DEVICE} |->
         IF k = KEY_HUE THEN Bytes("hue0")
         ELSE IF k = KEY_LOGIN THEN Bytes(json_dumps(<<"T0", "U0">>))
         ELSE Bytes("D0")]}

InitRest ==
    /\ err = ""
    /\ listener_url = NoUrl
    /\ zc_open = FALSE
    /\ count = 0
    /\ url = NoUrl
    /\ hue_id = ""
    /\ pump = ""
    /\ metrics = NoMetrics
    /\ t = ATDataUnbound
    /\ pub = 0
    /\ cycle = 0
    /\ sleeps = 0
    /\ announced = FALSE
    /\ calls = [find_hue |-> 0, auth_hue |-> 0, find_pump |-> 0]
    /\ lastAuth = NoAuth
    /\ lastLogin = NoLogin
    /\ lastForced = NoPair
    /\ lastData = NoData
    /\ cyc = NoCyc
    /\ published = NoMetrics
    /\ scraped = NoScrape
    /\ left_found = FALSE
    /\ first_url = NoUrl
    /\ device_lists = 0
    /\ lastPump = NoPump

\* serve has called Meter(): dbm.open has created or opened the store
Init ==
    /\ pc = "find_hue"
    /\ db \in InitialStores
    /\ token = ""
    /\ id = ""
    /\ InitRest

\* an uncaught exception ends the process
Die(msg) == pc' = "dead" /\ err' = msg

(***************************************************************************)
(* HueController callbacks (the zeroconf thread)                           *)
(***************************************************************************)
add_service ==
    /\ zc_open
    /\ \E info \in Announcements :
         /\ listener_url' = service_url(info)
         /\ first_url' = IF first_url = NoUrl THEN service_url(info) ELSE first_url
    /\ announced' = TRUE
    /\ UNCHANGED <<pc, err, db, zc_open, count, meterVars, metrics, pollVars, sleeps, calls,
                   lastAuth, lastLogin, lastForced, lastData, cyc, published, lastPump,
                   device_lists, left_found, scraped>>

\* update_service calls add_service
update_service ==
    /\ zc_open
    /\ \E info \in Announcements :
         /\ listener_url' = service_url(info)
         /\ first_url' = IF first_url = NoUrl THEN service_url(info) ELSE first_url
    /\ announced' = TRUE
    /\ UNCHANGED <<pc, err, db, zc_open, count, meterVars, metrics, pollVars, sleeps, calls,
                   lastAuth, lastLogin, lastForced, lastData, cyc, published, lastPump,
                   device_lists, left_found, scraped>>

remove_service ==
    /\ zc_open
    /\ listener_url' = NoUrl
    /\ announced' = TRUE
    /\ UNCHANGED <<pc, err, db, zc_open, count, meterVars, metrics, pollVars, sleeps, calls,
                   lastAuth, lastLogin, lastForced, lastData, cyc, published, lastPump,
                   device_lists, first_url, left_found, scraped>>

(***************************************************************************)
(* Meter.find_hue                                                          *)
(***************************************************************************)
\* lines 107-111: the browser starts, count = 0
find_hue_start ==
    /\ pc = "find_hue"
    /\ zc_open' = TRUE
    /\ listener_url' = NoUrl
    /\ count' = 0
    /\ sleeps' = 0
    /\ calls' = [calls EXCEPT !.find_hue = @ + 1]
    /\ pc' = "find_hue_loop"
    /\ UNCHANGED <<err, db, meterVars, metrics, pollVars, announced, lastAuth, lastLogin,
                   lastForced, lastData, cyc, published, lastPump, device_lists, first_url,
                   left_found, scraped>>

\* the loop condition of line 112
find_hue_waiting == count < MAX_WAIT /\ listener_url = NoUrl

\* lines 112-113: the condition holds, time.sleep(1); count is not touched
find_hue_sleep ==
    /\ pc = "find_hue_loop"
    /\ find_hue_waiting
    /\ sleeps < MAX_WAIT + ExtraWait
    /\ sleeps' = sleeps + 1
    /\ UNCHANGED <<pc, err, db, listenerVars, meterVars, metrics, pollVars, announced, calls,
                   lastAuth, lastLogin, lastForced, lastData, cyc, published, lastPump,
                   device_lists, first_url, left_found, scraped>>

\* line 112: the condition fails, the loop is left
find_hue_leave ==
    /\ pc = "find_hue_loop"
    /\ ~find_hue_waiting
    /\ pc' = "find_hue_close"
    /\ left_found' = (listener_url # NoUrl)
    /\ UNCHANGED <<err, db, listenerVars, meterVars, metrics, pollVars, sleeps, announced,
                   calls, lastAuth, lastLogin, lastForced, lastData, cyc, published,
                   lastPump, device_lists, first_url, scraped>>

\* line 114: zc.close()
find_hue_close ==
    /\ pc = "find_hue_close"
    /\ zc_open' = FALSE
    /\ pc' = "find_hue_read"
    /\ UNCHANGED <<err, db, listener_url, count, meterVars, metrics, pollVars, histVars>>

\* lines 116-118: self.url = listener.url; raise SystemExit if it is falsy
find_hue_read ==
    /\ pc = "find_hue_read"
    /\ url' = listener_url
    /\ IF listener_url = NoUrl
          THEN Die("Did not found Hue bridge")
          ELSE pc' = "auth_hue" /\ err' = err
    /\ sleeps' = 0
    /\ UNCHANGED <<db, listenerVars, hue_id, pump, metrics, pollVars, announced, calls,
                   lastAuth, lastLogin, lastForced, lastData, cyc, published, lastPump,
                   device_lists, first_url, left_found, scraped>>

(***************************************************************************)
(* Meter.__init__ after find_hue                                           *)
(***************************************************************************)
\* the username the bridge granted in its answer r ("" when it granted none)
granted_username(r) ==
    LET won == {i \in 1..Len(r.json) : r.json[i].success}
    IN  IF r.status_code # 200 \/ won = {} THEN ""
        ELSE r.json[CHOOSE i \in won : \A j \in won : j <= i].username

\* line 91: self.auth_hue()
auth_hue_call ==
    /\ pc = "auth_hue"
    /\ \E r \in HueRegResponses :
         LET res == auth_hue(db, r)
         IN  /\ db' = res.db
             /\ hue_id' = res.hue_id
             /\ lastAuth' = [called |-> TRUE, pre |-> db, post |-> res.db,
                             posts |-> res.posts, raised |-> res.raised,
                             hue_id |-> res.hue_id,
                             granted |-> IF res.posts = 1 THEN granted_username(r) ELSE ""]
             /\ IF res.raised # "none"
                   THEN Die("No user in hue")
                   ELSE pc' = "find_pump" /\ err' = err
    /\ calls' = [calls EXCEPT !.auth_hue = @ + 1]
    /\ UNCHANGED <<listenerVars, url, pump, metrics, pollVars, sleeps, announced, lastLogin,
                   lastForced, lastData, cyc, published, lastPump, device_lists, first_url,
                   left_found, scraped>>

\* self.find_pump() against one of the bridge states of R
find_pump_on(R) ==
    /\ pc = "find_pump"
    /\ \E r \in R :
         LET res == find_pump(r)
         IN  /\ pump' = IF res.raised = "none" THEN res.pump ELSE pump
             /\ lastPump' = [called |-> TRUE, status_code |-> r.status_code,
                             lights |-> r.lights, raised |-> res.raised]
             /\ IF res.raised # "none"
                   THEN Die(IF r.status_code # 200 THEN "Getting Hue status failed"
                            ELSE "Poolpump not found in list of controlled units")
                   ELSE pc' = "meter_config" /\ err' = err
    /\ calls' = [calls EXCEPT !.find_pump = @ + 1]
    /\ UNCHANGED <<db, listenerVars, url, hue_id, metrics, pollVars, sleeps, announced,
                   lastAuth, lastLogin, lastForced, lastData, cyc, published, device_lists,
                   first_url, left_found, scraped>>

\* line 92: self.find_pump()
find_pump_call == find_pump_on(HueStateResponses)

\* lines 94-103: config.yaml is read (or cannot be), the five gauges are
\* created; a gauge with labels exposes no sample until a child is asked for
meter_config ==
    /\ pc = "meter_config"
    /\ \E readable \in BOOLEAN :
         IF readable THEN pc' = "start_http_server" /\ err' = err
                     ELSE Die("config.yaml")
    /\ metrics' = NoMetrics
    /\ UNCHANGED <<db, listenerVars, meterVars, pollVars, histVars>>

(***************************************************************************)
(* serve                                                                   *)
(***************************************************************************)
\* lines 289-290: start_http_server(8023); meter.refresh_all_meters()
serve_start ==
    /\ pc = "start_http_server"
    /\ pc' = "login1"
    /\ cycle' = cycle + 1
    /\ cyc' = NoCyc
    /\ UNCHANGED <<err, db, listenerVars, meterVars, metrics, token, id, t, pub, sleeps,
                   announced, calls, lastAuth, lastLogin, lastForced, lastData, published,
                   lastPump, device_lists, first_url, left_found, scraped>>

\* lines 293-294: time.sleep(60); meter.refresh_all_meters()
serve_sleep ==
    /\ pc = "sleep"
    /\ cycle < MaxCycles
    /\ pc' = "login1"
    /\ cycle' = cycle + 1
    /\ cyc' = NoCyc
    /\ UNCHANGED <<err, db, listenerVars, meterVars, metrics, token, id, t, pub, sleeps,
                   announced, calls, lastAuth, lastLogin, lastForced, lastData, published,
                   lastPump, device_lists, first_url, left_found, scraped>>

(***************************************************************************)
(* Meter.refresh_all_meters                                                *)
(***************************************************************************)
\* what a call of aquatemp_login leaves in the history
LoginRecord(force, r, res) ==
    [called |-> TRUE, force |-> force, pre |-> db, post |-> res.db,
     requests |-> res.requests, raised |-> res.raised, ret |-> res.ret,
     resp |-> IF res.requests = 1 THEN r ELSE NoResponse]

\* what a call of aquatemp_get_data leaves in the history: the store before
\* and after, the x-token header, the deviceCode asked for, the requests made
DataRecord(rdev, rdata, res) ==
    [called |-> TRUE,
     items |-> IF res.raised = "none" THEN rdata.objectResult ELSE <<>>,
     raised |-> res.raised, ret |-> res.ret,
     pre |-> db, post |-> res.db, token |-> token, device |-> res.device,
     device_requests |-> res.device_requests, data_requests |-> res.data_requests,
     device_resp |-> IF res.device_requests = 1 THEN rdev ELSE NoDeviceResponse]

\* the device-list endpoint has answered one more request with a device
device_listed(res) ==
    IF res.device_requests = 1 /\ KEY_DEVICE \in DOMAIN res.db THEN 1 ELSE 0

\* except SystemError: the handler of line 164 takes SystemError only
caught(exc) == exc = "SystemError"

\* where control goes after a call in the try block (lines 161-164)
try_next(raised, nxt) ==
    IF raised = "none" THEN nxt ELSE IF caught(raised) THEN "login2" ELSE "dead"

\* except_next of a handler that retries as long as SystemError is raised
except_next_retries(raised, nxt) ==
    IF raised = "none" THEN nxt ELSE IF caught(raised) THEN "login2" ELSE "dead"

\* where control goes after a call in the handler (lines 165-166): whatever
\* is raised there leaves refresh_all_meters and serve
except_next(raised, nxt) ==
    IF raised = "none" THEN nxt ELSE "dead"

\* line 162: (token, id) = aquatemp_login(self.db, self.at)
login1 ==
    /\ pc = "login1"
    /\ \E r \in LoginResponses :
         LET res == aquatemp_login(db, FALSE, r)
         IN  /\ db' = res.db
             /\ lastLogin' = LoginRecord(FALSE, r, res)
             /\ cyc' = [cyc EXCEPT !.logins = @ + 1,
                                   !.first_failed = res.raised # "none"]
             /\ IF res.raised = "none"
                   THEN token' = res.ret[1] /\ id' = res.ret[2]
                   ELSE UNCHANGED <<token, id>>
             /\ pc' = try_next(res.raised, "data1")
             /\ err' = IF pc' = "dead" THEN res.raised ELSE err
    /\ UNCHANGED <<listenerVars, meterVars, metrics, t, pub, cycle, sleeps, announced, calls,
                   lastAuth, lastForced, lastData, published, lastPump, device_lists,
                   first_url, left_found, scraped>>

\* line 163: t = aquatemp_get_data(self.db, token, id)
data1 ==
    /\ pc = "data1"
    /\ \E rdev \in DeviceResponses, rdata \in DataResponses :
         LET res == aquatemp_get_data(db, token, id, rdev, rdata)
         IN  /\ db' = res.db
             /\ lastData' = DataRecord(rdev, rdata, res)
             /\ device_lists' = device_lists + device_listed(res)
             /\ cyc' = [cyc EXCEPT !.attempts = @ + 1,
                                   !.first_failed = res.raised # "none"]
             /\ IF res.raised = "none"
                   THEN t' = res.ret /\ pub' = 1
                   ELSE UNCHANGED <<t, pub>>
             /\ pc' = try_next(res.raised, "publish")
             /\ err' = IF pc' = "dead" THEN res.raised ELSE err
    /\ UNCHANGED <<listenerVars, meterVars, metrics, token, id, cycle, sleeps, announced,
                   calls, lastAuth, lastLogin, lastForced, published, lastPump, first_url,
                   left_found, scraped>>

\* the forced login whose returned pair is not bound to token, id
login2_keeps_pair ==
    /\ pc = "login2"
    /\ \E r \in LoginResponses :
         LET res == aquatemp_login(db, TRUE, r)
         IN  /\ db' = res.db
             /\ lastLogin' = LoginRecord(TRUE, r, res)
             /\ lastForced' = IF res.raised = "none" THEN res.ret ELSE lastForced
             /\ cyc' = [cyc EXCEPT !.logins = @ + 1, !.forced = @ + 1,
                                   !.second_failed = res.raised # "none"]
             /\ UNCHANGED <<token, id>>
             /\ pc' = except_next(res.raised, "data2")
             /\ err' = IF pc' = "dead" THEN res.raised ELSE err
    /\ UNCHANGED <<listenerVars, meterVars, metrics, t, pub, cycle, sleeps, announced, calls,
                   lastAuth, lastData, published, lastPump, device_lists, first_url,
                   left_found, scraped>>

\* line 165: (token, id) = aquatemp_login(self.db, self.at, force=True)
login2 ==
    /\ pc = "login2"
    /\ \E r \in LoginResponses :
         LET res == aquatemp_login(db, TRUE, r)
         IN  /\ db' = res.db
             /\ lastLogin' = LoginRecord(TRUE, r, res)
             /\ lastForced' = IF res.raised = "none" THEN res.ret ELSE lastForced
             /\ cyc' = [cyc EXCEPT !.logins = @ + 1, !.forced = @ + 1,
                                   !.second_failed = res.raised # "none"]
             /\ IF res.raised = "none"
                   THEN token' = res.ret[1] /\ id' = res.ret[2]
                   ELSE UNCHANGED <<token, id>>
             /\ pc' = except_next(res.raised, "data2")
             /\ err' = IF pc' = "dead" THEN res.raised ELSE err
    /\ UNCHANGED <<listenerVars, meterVars, metrics, t, pub, cycle, sleeps, announced, calls,
                   lastAuth, lastData, published, lastPump, device_lists, first_url,
                   left_found, scraped>>

\* data2 that publishes the defaults when the second fetch fails
data2_publishes_defaults ==
    /\ pc = "data2"
    /\ \E rdev \in DeviceResponses, rdata \in DataResponses :
         LET res == aquatemp_get_data(db, token, id, rdev, rdata)
         IN  /\ db' = res.db
             /\ lastData' = DataRecord(rdev, rdata, res)
             /\ device_lists' = device_lists + device_listed(res)
             /\ cyc' = [cyc EXCEPT !.attempts = @ + 1,
                                   !.second_failed = res.raised # "none"]
             /\ IF res.raised = "none"
                   THEN t' = res.ret /\ pub' = 1 /\ metrics' = metrics
                   ELSE /\ UNCHANGED <<t, pub>>
                        /\ metrics' = gauge_set(metrics, "target", id, ATDataDefault.target)
             /\ pc' = except_next(res.raised, "publish")
             /\ err' = IF pc' = "dead" THEN res.raised ELSE err
    /\ UNCHANGED <<listenerVars, meterVars, token, id, cycle, sleeps, announced,
                   calls, lastAuth, lastLogin, lastForced, published, lastPump, first_url,
                   left_found, scraped>>

\* line 166: t = aquatemp_get_data(self.db, token, id)
data2 ==
    /\ pc = "data2"
    /\ \E rdev \in DeviceResponses, rdata \in DataResponses :
         LET res == aquatemp_get_data(db, token, id, rdev, rdata)
         IN  /\ db' = res.db
             /\ lastData' = DataRecord(rdev, rdata, res)
             /\ device_lists' = device_lists + device_listed(res)
             /\ cyc' = [cyc EXCEPT !.attempts = @ + 1,
                                   !.second_failed = res.raised # "none"]
             /\ IF res.raised = "none"
                   THEN t' = res.ret /\ pub' = 1
                   ELSE UNCHANGED <<t, pub>>
             /\ pc' = except_next(res.raised, "publish")
             /\ err' = IF pc' = "dead" THEN res.raised ELSE err
    /\ UNCHANGED <<listenerVars, meterVars, metrics, token, id, cycle, sleeps, announced,
                   calls, lastAuth, lastLogin, lastForced, published, lastPump, first_url,
                   left_found, scraped>>

\* lines 168-169: one turn of the loop, self.metrics[p].labels(id=id).set(t[p])
publish ==
    /\ pc = "publish"
    /\ metrics' = gauge_set(metrics, ATKeys[pub], id, t[ATKeys[pub]])
    /\ IF pub < Len(ATKeys)
          THEN pub' = pub + 1 /\ pc' = pc
          ELSE pub' = 0 /\ pc' = "pump_labels"
    /\ UNCHANGED <<err, db, listenerVars, meterVars, token, id, t, cycle, histVars>>

\* line 171: self.metrics["pumprunning"].labels(name=PUMPNAME) is evaluated
\* before the argument of set()
pump_labels ==
    /\ pc = "pump_labels"
    /\ metrics' = gauge_labels(metrics, "pumprunning", PUMPNAME)
    /\ pc' = "is_running"
    /\ UNCHANGED <<err, db, listenerVars, meterVars, pollVars, histVars>>

\* line 171: .set(self.is_running()), then refresh_all_meters returns
pump_set ==
    /\ pc = "is_running"
    /\ \E r \in LightResponses :
         LET res == is_running(r)
         IN  IF res.raised = "none"
                THEN /\ metrics' = gauge_set(metrics, "pumprunning", PUMPNAME, PyBool(res.ret))
                     /\ published' = metrics'
                     /\ pc' = "sleep"
                     /\ err' = err
                ELSE /\ UNCHANGED <<metrics, published>>
                     /\ Die("Getting Hue pumpstatus failed")
    /\ token' = ""
    /\ id' = ""
    /\ t' = ATDataUnbound
    /\ lastLogin' = NoLogin
    /\ lastData' = NoData
    /\ UNCHANGED <<db, listenerVars, meterVars, pub, cycle, sleeps, announced, calls,
                   lastAuth, lastForced, cyc, lastPump, device_lists, first_url, left_found,
                   scraped>>

(***************************************************************************)
(* The program                                                             *)
(***************************************************************************)
Next ==
    \/ add_service
    \/ update_service
    \/ remove_service
    \/ find_hue_start
    \/ find_hue_sleep
    \/ find_hue_leave
    \/ find_hue_close
    \/ find_hue_read
    \/ auth_hue_call
    \/ find_pump_call
    \/ meter_config
    \/ serve_start
    \/ serve_sleep
    \/ login1
    \/ data1
    \/ login2
    \/ data2
    \/ publish
    \/ pump_labels
    \/ pump_set

Spec == Init /\ [][Next]_vars

(***************************************************************************)
(* The program with a scraper: start_http_server (line 289) serves the     *)
(* registry from a thread of its own, at any moment of a poll cycle. A     *)
(* scrape changes nothing of the program, so Spec leaves it out.           *)
(***************************************************************************)
\* GET /metrics: the samples of the five gauges as they are at that moment
scrape ==
    /\ pc \in {"login1", "data1", "login2", "data2", "publish", "pump_labels",
               "is_running", "sleep"}
    /\ scraped' = [called |-> TRUE, samples |-> metrics, before |-> published,
                   cycle |-> cycle]
    /\ UNCHANGED <<pc, err, db, listenerVars, meterVars, metrics, pollVars, sleeps, announced,
                   calls, lastAuth, lastLogin, lastForced, lastData, cyc, published,
                   lastPump, device_lists, first_url, left_found>>

NextScrape == Next \/ scrape

SpecScrape == Init /\ [][NextScrape]_vars

(***************************************************************************)
(* aquatemp_get_data on its own: one call, on any store a run can have     *)
(* left, with any pair a login can have returned and any answer of up to   *)
(* MaxItems items                                                          *)
(***************************************************************************)
InitData ==
    /\ pc = "get_data"
    /\ db \in InitialStores
    /\ \E p \in ServerPairs \cup {<<"T0", "U0">>} : token = p[1] /\ id = p[2]
    /\ InitRest

get_data_call ==
    /\ pc = "get_data"
    /\ \E rdev \in DeviceResponses, rdata \in DataResponsesOf(MaxItems) :
         LET res == aquatemp_get_data(db, token, id, rdev, rdata)
         IN  /\ db' = res.db
             /\ lastData' = DataRecord(rdev, rdata, res)
             /\ device_lists' = device_lists + device_listed(res)
             /\ t' = IF res.raised = "none" THEN res.ret ELSE t
             /\ pc' = IF res.raised = "none" THEN "got_data" ELSE "dead"
             /\ err' = IF res.raised = "none" THEN err ELSE res.raised
    /\ UNCHANGED <<listenerVars, meterVars, metrics, token, id, pub, cycle, sleeps,
                   announced, calls, lastAuth, lastLogin, lastForced, cyc, published,
                   lastPump, first_url, left_found, scraped>>

NextData == get_data_call

SpecData == InitData /\ [][NextData]_vars

(***************************************************************************)
(* Meter.find_pump on its own: one call, the bridge found and bound, on    *)
(* any bridge state of up to MaxLights lights                              *)
(***************************************************************************)
InitPump ==
    /\ pc = "find_pump"
    /\ db \in {d \in InitialStores : KEY_HUE \in DOMAIN d}
    /\ token = ""
    /\ id = ""
    /\ err = ""
    /\ \E info \in Announcements :
         /\ listener_url = service_url(info)
         /\ url = service_url(info)
         /\ first_url = service_url(info)
    /\ zc_open = FALSE
    /\ count = 0
    /\ hue_id = "hue0"
    /\ pump = ""
    /\ metrics = NoMetrics
    /\ t = ATDataUnbound
    /\ pub = 0
    /\ cycle = 0
    /\ sleeps = 0
    /\ announced = TRUE
    /\ calls = [find_hue |-> 1, auth_hue |-> 1, find_pump |-> 0]
    /\ lastAuth = NoAuth
    /\ lastLogin = NoLogin
    /\ lastForced = NoPair
    /\ lastData = NoData
    /\ cyc = NoCyc
    /\ published = NoMetrics
    /\ scraped = NoScrape
    /\ left_found = TRUE
    /\ device_lists = 0
    /\ lastPump = NoPump

find_pump_any == find_pump_on(HueStateResponsesOf(MaxLights))

NextPump == find_pump_any

SpecPump == InitPump /\ [][NextPump]_vars

(***************************************************************************)
(* Properties                                                              *)
(***************************************************************************)
PollPcs == {"login1", "data1", "login2", "data2", "publish", "pump_labels",
            "is_running", "sleep"}

\* C1: in every poll cycle the forced re-login is made at most once and only
\* after the first attempt (login, then fetch) has failed; the fetch is
\* attempted at most twice, the second time only after the forced login; a
\* failure of the second attempt ends the cycle and the process with it.
C1_SingleForcedRetry ==
    /\ cyc.forced <= 1
    /\ cyc.attempts <= 2
    /\ cyc.forced = 1 => cyc.first_failed
    /\ cyc.attempts = 2 => cyc.forced = 1
    /\ cyc.second_failed => pc = "dead" /\ cyc.forced = 1
    /\ pc \in {"login2", "data2"} => cyc.first_failed /\ ~cyc.second_failed

\* the second attempt of a cycle has failed after a forced login that succeeded
C1_Witness ==
    /\ pc = "dead"
    /\ cyc.forced = 1
    /\ cyc.attempts = 2
    /\ cyc.second_failed
    /\ err = "SystemError"

\* C2: aquatemp_login with force=False on a store that holds the credential
\* record returns the pair of that record, sends nothing to the login
\* endpoint and leaves the store as it was.
C2_CacheHit ==
    (lastLogin.called /\ ~lastLogin.force /\ KEY_LOGIN \in DOMAIN lastLogin.pre) =>
        /\ lastLogin.raised = "none"
        /\ lastLogin.requests = 0
        /\ lastLogin.post = lastLogin.pre
        /\ Bytes(json_dumps(lastLogin.ret)) = lastLogin.pre[KEY_LOGIN]

\* a cached login of a later cycle, on the record a forced login has written
C2_Witness ==
    /\ lastLogin.called
    /\ ~lastLogin.force
    /\ KEY_LOGIN \in DOMAIN lastLogin.pre
    /\ lastLogin.ret \in ServerPairs
    /\ pc = "data1"

\* C3: when the login endpoint answers with an unsuccessful status or a
\* nonzero error_code, aquatemp_login raises SystemError and the store is
\* as it was before the call.
C3_RefusedLoginKeepsStore ==
    (/\ lastLogin.called
     /\ lastLogin.requests = 1
     /\ ~lastLogin.resp.conn
     /\ (~lastLogin.resp.ok \/ lastLogin.resp.error_code # 0)) =>
        /\ lastLogin.raised = "SystemError"
        /\ lastLogin.post = lastLogin.pre
        /\ db = lastLogin.pre

\* a forced login is refused with error_code 1 while a record is stored
C3_Witness ==
    /\ lastLogin.called
    /\ lastLogin.force
    /\ lastLogin.resp.ok
    /\ lastLogin.resp.error_code = 1
    /\ lastLogin.requests = 1
    /\ KEY_LOGIN \in DOMAIN lastLogin.pre
    /\ pc = "dead"

\* C4: aquatemp_login with force=True sends one login request whatever the
\* store holds and, when it succeeds, returns the pair received and leaves
\* it as the credential record; a later aquatemp_login with force=False
\* sends no request and returns the pair of the last successful forced login.
C4_ForcedLoginOverwrites ==
    /\ (lastLogin.called /\ lastLogin.force) => lastLogin.requests = 1
    /\ (lastLogin.called /\ lastLogin.force /\ lastLogin.raised = "none") =>
          /\ lastLogin.ret = lastLogin.resp.objectResult
          /\ lastLogin.ret = lastForced
          /\ KEY_LOGIN \in DOMAIN lastLogin.post
          /\ lastLogin.post[KEY_LOGIN] = Bytes(json_dumps(lastLogin.resp.objectResult))
    /\ (lastLogin.called /\ ~lastLogin.force /\ lastForced # NoPair) =>
          /\ lastLogin.requests = 0
          /\ lastLogin.raised = "none"
          /\ lastLogin.ret = lastForced

\* a cached login after a forced login that replaced a stored record
C4_Witness ==
    /\ lastLogin.called
    /\ ~lastLogin.force
    /\ lastForced \in ServerPairs
    /\ lastLogin.ret = lastForced
    /\ cycle = 2

\* C5: while no announcement has been delivered, find_hue makes at most
\* MAX_WAIT one-second waits.
C5_BoundedWait == (~announced) => sleeps <= MAX_WAIT

RemoveAt(seq, i) == SubSeq(seq, 1, i - 1) \o SubSeq(seq, i + 1, Len(seq))

\* C6: an item whose code is none of R02, T02, T03, Power changes no field:
\* the snapshot aquatemp_get_data returns is the one of the response
\* without that item.
C6_UnknownCodeIgnored ==
    (lastData.called /\ lastData.raised = "none") =>
        \A i \in 1..Len(lastData.items) :
            lastData.items[i].code \notin KnownCodes =>
                lastData.ret = parse_items(ATDataDefault, RemoveAt(lastData.items, i))

\* the position of the last item of the response that carries the code (0: none)
LastWith(items, code) ==
    LET at == {i \in 1..Len(items) : items[i].code = code}
    IN  IF at = {} THEN 0 ELSE CHOOSE i \in at : \A j \in at : j <= i

\* C7: for a successful response made of the codes R02, T02, T03, Power
\* only, target, incoming, outgoing are the numbers sent for R02, T02, T03
\* (the last one, when a code is sent twice) and on is the bool that is
\* true exactly when the number sent for Power is not zero; a field whose
\* code is not in the response is -1, or False for on.
C7_SnapshotOfKnownCodes ==
    (/\ lastData.called
     /\ lastData.raised = "none"
     /\ \A i \in 1..Len(lastData.items) : lastData.items[i].code \in KnownCodes) =>
        LET its == lastData.items
            num(code) == IF LastWith(its, code) = 0 THEN Num(-1)
                         ELSE Num(Float(its[LastWith(its, code)].value))
        IN  /\ lastData.ret.target = num("R02")
            /\ lastData.ret.incoming = num("T02")
            /\ lastData.ret.outgoing = num("T03")
            /\ lastData.ret.on = IF LastWith(its, "Power") = 0 THEN PyBool(FALSE)
                                 ELSE PyBool(Float(its[LastWith(its, "Power")].value) # 0)
            /\ t = lastData.ret

\* a response with T02, T03 and a nonzero Power, and no R02
C7_Witness ==
    /\ lastData.called
    /\ lastData.raised = "none"
    /\ Len(lastData.items) = 3
    /\ {lastData.items[i].code : i \in 1..3} = {"T02", "T03", "Power"}
    /\ lastData.ret.on = PyBool(TRUE)
    /\ lastData.ret.target = Num(-1)
    /\ lastData.ret.incoming # lastData.ret.outgoing

\* C8: a cycle whose second attempt fails (the forced login or the fetch
\* after it) writes no gauge: the samples exposed are those exposed when
\* the last complete cycle returned.
C8_FailedCycleWritesNothing ==
    (pc = "dead" /\ cyc.second_failed) => metrics = published

\* the second cycle fails twice after the first one has published
C8_Witness ==
    /\ pc = "dead"
    /\ cyc.second_failed
    /\ cycle = 2
    /\ published # NoMetrics
    /\ metrics = published

\* C9: a poll cycle runs only after find_hue, auth_hue and find_pump have
\* each been entered once and have each succeeded; none of them is entered
\* twice; as long as no poll cycle has started no gauge has a sample (so a
\* process that fails in Meter() never writes one).
C9_PollingOnlyAfterInit ==
    /\ calls.find_hue <= 1 /\ calls.auth_hue <= 1 /\ calls.find_pump <= 1
    /\ (pc \in PollPcs \/ cycle > 0) =>
          /\ calls = [find_hue |-> 1, auth_hue |-> 1, find_pump |-> 1]
          /\ url # NoUrl
          /\ hue_id # "" /\ KEY_HUE \in DOMAIN db /\ lastAuth.raised = "none"
          /\ pump # ""
    /\ cycle = 0 => metrics = NoMetrics /\ published = NoMetrics
    /\ (pc = "dead" /\ (url = NoUrl \/ hue_id = "" \/ pump = "")) => cycle = 0

\* the first poll cycle has been entered
C9_Witness ==
    /\ pc = "login1"
    /\ cycle = 1
    /\ calls = [find_hue |-> 1, auth_hue |-> 1, find_pump |-> 1]

\* what one call of auth_hue does, by the store it found
C10_AuthHueCall ==
    lastAuth.called =>
        IF KEY_HUE \in DOMAIN lastAuth.pre
           THEN /\ lastAuth.posts = 0
                /\ lastAuth.raised = "none"
                /\ lastAuth.hue_id = Decode(lastAuth.pre[KEY_HUE])
                /\ lastAuth.post = lastAuth.pre
           ELSE /\ lastAuth.posts = 1
                /\ IF lastAuth.granted = ""
                      THEN /\ lastAuth.raised = "SystemError"
                           /\ lastAuth.post = lastAuth.pre
                           /\ pc = "dead"
                      ELSE /\ lastAuth.raised = "none"
                           /\ lastAuth.hue_id = lastAuth.granted
                           /\ lastAuth.post = DbSet(lastAuth.pre, KEY_HUE, Bytes(lastAuth.granted))

\* hue_id, once in the store, keeps its value
C10_HueIdKept ==
    KEY_HUE \in DOMAIN db => (KEY_HUE \in DOMAIN db' /\ db'[KEY_HUE] = db[KEY_HUE])

\* C10: auth_hue returns a stored hue_id without a registration request;
\* without one it sends one POST, fails without writing hue_id when the
\* bridge grants nothing, and otherwise stores and returns the granted id;
\* no step of the program changes or removes a stored hue_id.
C10_AuthHue == [] C10_AuthHueCall /\ [][C10_HueIdKept]_vars

\* the bridge granted an id, it was stored, and polling went on with it
C10_Witness ==
    /\ lastAuth.called
    /\ lastAuth.posts = 1
    /\ lastAuth.granted = "hueA"
    /\ hue_id = "hueA"
    /\ db[KEY_HUE] = Bytes("hueA")
    /\ pc = "sleep"

\* C11: when the bridge answers 200, find_pump succeeds exactly when some
\* light of the answer is named PUMPNAME, and self.pump is then the
\* identifier of a light of that name; when none is (an empty list too) it
\* fails with the not-found error and self.pump stays unset.
C11_FindPump ==
    (lastPump.called /\ lastPump.status_code = 200) =>
        LET named == {i \in 1..Len(lastPump.lights) : lastPump.lights[i].name = PUMPNAME}
        IN  IF named # {}
               THEN /\ lastPump.raised = "none"
                    /\ pc # "dead"
                    /\ \E i \in named : lastPump.lights[i].id = pump
               ELSE /\ lastPump.raised = "SystemError"
                    /\ pc = "dead"
                    /\ err = "Poolpump not found in list of controlled units"
                    /\ pump = ""

\* the pump is the third of three lights, after one whose name differs in
\* case only
C11_Witness ==
    /\ lastPump.called
    /\ Len(lastPump.lights) = 3
    /\ lastPump.lights[1].name = "Other"
    /\ lastPump.lights[2].name = "poolpump"
    /\ lastPump.lights[3].name = PUMPNAME
    /\ pump = lastPump.lights[3].id
    /\ pc = "meter_config"

\* the entry of the store under key k, <<>> when it has none
Stored(d, k) == IF k \in DOMAIN d THEN <<d[k]>> ELSE <<>>

\* C12: aquatemp_login(force=True), whether it returns or raises, leaves the
\* device identifier of the store as it was; when the store holds one, the
\* fetch retried after it asks for that device and sends no request to the
\* device-list endpoint.
C12_ForcedLoginKeepsDevice ==
    /\ (lastLogin.called /\ lastLogin.force) =>
          Stored(lastLogin.post, KEY_DEVICE) = Stored(lastLogin.pre, KEY_DEVICE)
    /\ (/\ lastLogin.called /\ lastLogin.force
        /\ lastData.called /\ cyc.attempts = 2
        /\ KEY_DEVICE \in DOMAIN lastLogin.pre) =>
          /\ lastData.device_requests = 0
          /\ lastData.device = Decode(lastLogin.pre[KEY_DEVICE])
          /\ Stored(db, KEY_DEVICE) = Stored(lastLogin.pre, KEY_DEVICE)

\* the first fetch listed the device and then failed; the forced login
\* replaced the credentials and the retry succeeded on the stored device
C12_Witness ==
    /\ lastLogin.called /\ lastLogin.force /\ lastLogin.raised = "none"
    /\ KEY_LOGIN \in DOMAIN lastLogin.pre
    /\ lastLogin.post[KEY_LOGIN] # lastLogin.pre[KEY_LOGIN]
    /\ KEY_DEVICE \in DOMAIN lastLogin.pre
    /\ lastData.called /\ cyc.attempts = 2 /\ lastData.raised = "none"
    /\ lastData.device = "D1"
    /\ device_lists = 1

\* C13: aquatemp_get_device returns a stored identifier without a request;
\* on a miss it sends one request, stores and returns the first device
\* code listed, and on an HTTP failure or nonzero error_code raises
\* SystemError with the store unchanged. Over all poll cycles of a process
\* the device-list endpoint answers with a device at most once.
C13_DeviceCacheFirst ==
    /\ device_lists <= 1
    /\ lastData.called =>
          IF KEY_DEVICE \in DOMAIN lastData.pre
             THEN /\ lastData.device_requests = 0
                  /\ lastData.device = Decode(lastData.pre[KEY_DEVICE])
                  /\ lastData.post = lastData.pre
             ELSE /\ lastData.device_requests = 1
                  /\ IF lastData.device_resp.conn
                        THEN /\ lastData.raised = "ConnectionError"
                             /\ lastData.post = lastData.pre
                     ELSE IF ~lastData.device_resp.ok \/ lastData.device_resp.error_code # 0
                        THEN /\ lastData.raised = "SystemError"
                             /\ lastData.data_requests = 0
                             /\ lastData.post = lastData.pre
                     ELSE /\ lastData.device = lastData.device_resp.objectResult[1]
                          /\ lastData.post =
                                DbSet(lastData.pre, KEY_DEVICE, Bytes(lastData.device))

\* the device was listed in the first cycle and the second cycle fetched
\* with the stored identifier
C13_Witness ==
    /\ cycle = 2
    /\ device_lists = 1
    /\ lastData.called
    /\ lastData.device_requests = 0
    /\ lastData.device = "D1"
    /\ lastData.raised = "none"

\* the pairs a login response has carried: those of this run's endpoint and
\* the one a previous run stored
PairsGranted == ServerPairs \cup {<<"T0", "U0">>}

\* C14: the store holds no credential record, or one record made of the
\* token and the user id that one successful login response carried.
C14_RecordIsOnePair ==
    KEY_LOGIN \in DOMAIN db =>
        \E p \in PairsGranted : db[KEY_LOGIN] = Bytes(json_dumps(p))

\* a forced login has replaced the record of one login by that of another
C14_Witness ==
    /\ lastLogin.called /\ lastLogin.force /\ lastLogin.raised = "none"
    /\ KEY_LOGIN \in DOMAIN lastLogin.pre
    /\ lastLogin.pre[KEY_LOGIN] = Bytes(json_dumps(<<"T1", "U1">>))
    /\ db[KEY_LOGIN] = Bytes(json_dumps(<<"T2", "U2">>))

\* C15: the URL find_hue stores in self.url is the one of the first add or
\* update callback the listener received: later callbacks do not replace it.
C15_FirstAnnouncementWins == url # NoUrl => url = first_url

\* C18: when find_hue has left its loop on a non-empty listener.url, it
\* returns with self.url non-empty and does not raise 'Did not found Hue
\* bridge', whatever callbacks came between the test and the read.
C18_FoundBridgeKept ==
    (left_found /\ pc \notin {"find_hue_close", "find_hue_read"}) =>
        url # NoUrl /\ err # "Did not found Hue bridge"

\* C16: a scrape answered while a poll cycle runs shows the five gauges
\* either as the previous complete cycle left them or as this cycle leaves
\* them, never some of each.
C16_NoPartialScrape ==
    (scraped.called /\ scraped.cycle = cycle /\ pc = "sleep") =>
        scraped.samples \in {scraped.before, published}

\* C17: the pump state is fetched before any gauge of the cycle is written,
\* and a cycle whose pump-state fetch fails leaves all five gauges as the
\* last complete cycle left them.
C17_PumpStateBeforePublish ==
    /\ pc = "is_running" => metrics = published
    /\ (pc = "dead" /\ err = "Getting Hue pumpstatus failed") => metrics = published

\* the credential record of the store as aquatemp_login reads it back
StoredPair(d) == json_loads(Decode(d[KEY_LOGIN]))

\* the telemetry of the cycle is being published
C19_Publishing ==
    pc = "publish" =>
        /\ KEY_LOGIN \in DOMAIN db
        /\ KEY_DEVICE \in DOMAIN db
        /\ lastData.called /\ lastData.raised = "none" /\ lastData.data_requests = 1
        /\ lastData.token = StoredPair(db)[1]

\* a telemetry gauge changes only under the label of the stored user id
C19_Label ==
    \A p \in DOMAIN ATKeys : \A l \in Labels :
        metrics'[ATKeys[p]][l] # metrics[ATKeys[p]][l] =>
            KEY_LOGIN \in DOMAIN db /\ l = StoredPair(db)[2]

\* C19: whenever a poll cycle publishes telemetry the store holds a credential
\* record and a device identifier, the token of the telemetry request that
\* succeeded is the token of that record, and the four telemetry gauges are
\* set under the user id of that record, with the cached pair and with the
\* pair of a forced login alike.
C19_PublishedUnderStoredRecord == [] C19_Publishing /\ [][C19_Label]_vars

\* telemetry fetched with the pair of a forced login, which replaced another
\* record, is being published under the new user id
C19_Witness ==
    /\ pc = "publish" /\ pub = Len(ATKeys)
    /\ cyc.forced = 1
    /\ lastLogin.called /\ lastLogin.force
    /\ KEY_LOGIN \in DOMAIN lastLogin.pre
    /\ lastLogin.pre[KEY_LOGIN] = Bytes(json_dumps(<<"T1", "U1">>))
    /\ lastData.token = "T2"
    /\ metrics["target"]["U2"] # NoSample

====
